---- MODULE Spec2Model ----
(***************************************************************************)
(* A model of llvm/lib/Target/Z80/GISel/Z80CallLowering.cpp: the lowering  *)
(* of calls, tail calls, formal arguments and returns for GlobalISel.      *)
(*                                                                         *)
(* One function is lowered per behaviour: lowerFormalArguments at entry,   *)
(* then a call (lowerCall) or the return (lowerReturn) of its block.  An   *)
(* ordinary call leaves the function's frame information as it found it,   *)
(* so what can follow it is what can follow the entry.  MBB holds the      *)
(* instructions the latest lowering emitted, in block order.               *)
(*                                                                         *)
(* A second specification, HandlerSpec, drives the handler of the ordinary *)
(* call path slot by slot, over slot sequences the conventions modelled    *)
(* here do not produce.                                                    *)
(***************************************************************************)
EXTENDS Integers, Sequences, FiniteSets, TLC

(***************************************************************************)
(* Bounds of the model.                                                    *)
(***************************************************************************)
MaxArgs == 2

(***************************************************************************)
(* The subtarget: a Z80 in 16-bit mode, where a stack slot (the index      *)
(* type of address space 0) is two bytes.                                  *)
(***************************************************************************)
Is24Bit == FALSE
SlotSize == 2

(***************************************************************************)
(* Inputs: the calling conventions, the function's virtual registers and   *)
(* their definitions, the IR types.                                        *)
(***************************************************************************)
CallConvs == {"C", "Fast", "Z80_LibCall_F", "Cold"}

\* The store size in bytes of a type (DataLayout::getTypeStoreSize).
StoreSize(Ty) ==
  CASE Ty = "i16" -> 2
    [] Ty = "i8" -> 1
    [] Ty = "i32" -> 4
    [] OTHER -> 0

\* The defining instruction of each virtual register of the function being
\* lowered: 1 and 3 are copies of incoming physical registers, 2 is a copy of
\* a copy, 4 is computed, 5..7 are what a callee operand can be.
MRI ==
  [v \in 1..7 |->
     CASE v = 1 -> [opc |-> "COPY", phys |-> TRUE, r |-> "HL", n |-> 0]
       [] v = 2 -> [opc |-> "COPY", phys |-> FALSE, r |-> "", n |-> 1]
       [] v = 3 -> [opc |-> "COPY", phys |-> TRUE, r |-> "DE", n |-> 0]
       [] v = 4 -> [opc |-> "G_LOAD", phys |-> FALSE, r |-> "", n |-> 0]
       [] v = 5 -> [opc |-> "G_GLOBAL_VALUE", phys |-> FALSE, r |-> "@g", n |-> 0]
       [] v = 6 -> [opc |-> "COPY", phys |-> FALSE, r |-> "", n |-> 5]
       [] v = 7 -> [opc |-> "G_LOAD", phys |-> FALSE, r |-> "", n |-> 0]]

\* A machine operand: k is its kind, r a name (physical register, symbol,
\* convention of a register mask), n a number (virtual register, immediate,
\* frame index).
Op(k, r, n) == [k |-> k, r |-> r, n |-> n]
VReg(v) == Op("vreg", "", v)
PReg(p) == Op("preg", p, 0)
ImplicitUse(p) == Op("implicit-use", p, 0)
ImplicitDef(p) == Op("implicit-def", p, 0)
Imm(i) == Op("imm", "", i)
RegMask(CC) == Op("regmask", CC, 0)
Sym(s) == Op("sym", s, 0)
FrameIndex(i) == Op("fi", "", i)

isReg(MO) == MO.k \in {"vreg", "preg"}

Instr(opc, ops) == [opc |-> opc, ops |-> ops]

(***************************************************************************)
(* The calling-convention tables CC_Z80 and RetCC_Z80 and the register     *)
(* masks of Z80RegisterInfo.  The C and fast conventions pass every        *)
(* argument on the stack; the library-call convention passes the first     *)
(* two in HL and DE, returns in the flags and preserves every register.    *)
(***************************************************************************)
ArgRegs(CC) == IF CC = "Z80_LibCall_F" THEN <<"HL", "DE">> ELSE <<>>

RetRegs(CC) == IF CC = "Z80_LibCall_F" THEN <<"F">> ELSE <<"HL">>

getCallPreservedMask(CC) ==
  IF CC = "Z80_LibCall_F" THEN {"HL", "DE", "IX"} ELSE {"IX"}

\* regmaskSubsetEqual(mask0, mask1): every register mask0 preserves is
\* preserved by mask1.
regmaskSubsetEqual(mask0, mask1) == mask0 \subseteq mask1

\* MachineOperand::clobbersPhysReg(mask, reg): reg is not preserved.
clobbersPhysReg(mask, PhysReg) == PhysReg \notin mask

\* A value slot (CCValAssign).
RegLoc(r, Ty) == [isReg |-> TRUE, reg |-> r, off |-> 0, size |-> StoreSize(Ty)]
MemLoc(o, Ty) == [isReg |-> FALSE, reg |-> "", off |-> o, size |-> StoreSize(Ty)]

\* The slot unit a stack argument of Size bytes takes.
StackAlloc(Size) == ((Size + SlotSize - 1) \div SlotSize) * SlotSize

\* CCState after the analysis of Args[i..] with the registers regs[r..] free
\* and off bytes of stack taken: the slots, in order.
RECURSIVE AnalyzeFrom(_, _, _, _, _)
AnalyzeFrom(regs, Args, i, r, off) ==
  IF i > Len(Args) THEN <<>>
  ELSE IF Args[i].Flags.ByVal \/ r > Len(regs)
       THEN <<MemLoc(off, Args[i].Ty)>>
              \o AnalyzeFrom(regs, Args, i + 1, r, off + StackAlloc(StoreSize(Args[i].Ty)))
       ELSE <<RegLoc(regs[r], Args[i].Ty)>>
              \o AnalyzeFrom(regs, Args, i + 1, r + 1, off)

RECURSIVE StackBytes(_, _)
StackBytes(Locs, i) ==
  IF i > Len(Locs) THEN 0
  ELSE (IF Locs[i].isReg THEN 0 ELSE StackAlloc(Locs[i].size)) + StackBytes(Locs, i + 1)

\* determineAssignments(Assigner, Args, CCInfo): the slots of Args under the
\* convention CC, or failure when a part has no legal type.  The Z80 tables
\* have no rule that reads the variadic flag.
determineAssignments(Table, CC, IsVarArg, Args) ==
  LET regs == IF Table = "CC_Z80" THEN ArgRegs(CC) ELSE RetRegs(CC)
      Locs == AnalyzeFrom(regs, Args, 1, 1, 0)
  IN [ok |-> \A i \in 1..Len(Args) : StoreSize(Args[i].Ty) > 0,
      Locs |-> Locs,
      NextStackOffset |-> StackBytes(Locs, 1)]

(***************************************************************************)
(* CallLowering's library routines that the file relies on.                *)
(***************************************************************************)
\* The flags of a call-site value: none of the ABI attributes.
NoFlags == [ByVal |-> FALSE]

\* splitToValueTypes(OrigArg, SplitArgs, DL, CC): one part per legal value of
\* the type; a value of an empty type has no register and no part.
splitToValueTypes(OrigArg) ==
  IF Len(OrigArg.Regs) = 0
  THEN <<>>
  ELSE <<[Regs |-> OrigArg.Regs, Ty |-> OrigArg.Ty, Flags |-> OrigArg.Flags]>>

RECURSIVE SplitAll(_, _)
SplitAll(OrigArgs, i) ==
  IF i > Len(OrigArgs) THEN <<>>
  ELSE splitToValueTypes(OrigArgs[i]) \o SplitAll(OrigArgs, i + 1)

\* resultsCompatible(Info, MF, InArgs, CalleeAssigner, CallerAssigner): the
\* parts of the returned value get the same slots under both conventions.
resultsCompatible(Info, MF, InArgs) ==
  LET CalleeCC == Info.CallConv
      CallerCC == MF.F.CallingConv
      SameSlots(CCInfo1, CCInfo2) ==
        /\ CCInfo1.ok
        /\ CCInfo2.ok
        /\ Len(CCInfo1.Locs) = Len(CCInfo2.Locs)
        /\ \A i \in 1..Len(CCInfo1.Locs) :
             /\ CCInfo1.Locs[i].isReg = CCInfo2.Locs[i].isReg
             /\ IF CCInfo1.Locs[i].isReg
                THEN CCInfo1.Locs[i].reg = CCInfo2.Locs[i].reg
                ELSE CCInfo1.Locs[i].off = CCInfo2.Locs[i].off
  IN IF CallerCC = CalleeCC THEN TRUE
     ELSE SameSlots(determineAssignments("RetCC_Z80", CalleeCC, Info.IsVarArg, InArgs),
                    determineAssignments("RetCC_Z80", CallerCC, MF.F.IsVarArg, InArgs))

\* getDefIgnoringCopies(Reg, MRI): the definition of Reg, looking through
\* copies of virtual registers but not through a copy of a physical register.
RECURSIVE getDefIgnoringCopies(_)
getDefIgnoringCopies(Reg) ==
  IF Reg \notin DOMAIN MRI THEN [opc |-> "none", phys |-> FALSE, r |-> "", n |-> 0]
  ELSE IF MRI[Reg].opc = "COPY" /\ ~MRI[Reg].phys THEN getDefIgnoringCopies(MRI[Reg].n)
  ELSE MRI[Reg]

(***************************************************************************)
(* The tail-call eligibility analysis.                                     *)
(***************************************************************************)
\* Return true if the calling convention is one that we can guarantee TCO for.
canGuaranteeTCO(CC) == CC = "Fast"

\* mayTailCallThisCC with every convention on its list.
AnyCCMayTailCall(CC) == TRUE

\* Return true if we might ever do TCO for calls with this calling convention.
mayTailCallThisCC(CC) ==
  IF CC \in {"C", "PreserveMost", "Z80_LibCall", "Z80_LibCall_AB",
             "Z80_LibCall_AC", "Z80_LibCall_BC", "Z80_LibCall_L",
             "Z80_LibCall_F", "Z80_LibCall_16", "Z80_TIFlags"}
  THEN TRUE
  ELSE canGuaranteeTCO(CC)

\* doCallerAndCalleePassArgsTheSameWay without its comparison of the
\* preserved-register masks.
PassArgsIgnoringMasks(Info, MF, InArgs) ==
  Info.CallConv = MF.F.CallingConv \/ resultsCompatible(Info, MF, InArgs)

doCallerAndCalleePassArgsTheSameWay(Info, MF, InArgs) ==
  LET CalleeCC == Info.CallConv
      CallerCC == MF.F.CallingConv
  IN IF CalleeCC = CallerCC THEN TRUE
     ELSE IF ~resultsCompatible(Info, MF, InArgs) THEN FALSE
     ELSE regmaskSubsetEqual(getCallPreservedMask(CallerCC),
                             getCallPreservedMask(CalleeCC))

\* The variadic check left out.
NoVariadicCheck(Info, ArgLoc) == FALSE

\* Be conservative and disallow variadic memory operands.
VariadicMemOperand(Info, ArgLoc) == ~ArgLoc.isReg /\ Info.IsVarArg

\* The pass-through check without the comparison of the copied register.
AnyCopyPasses(RegDef, Reg) == RegDef.opc = "COPY"

\* The value was copied into a virtual register, and from the register Reg.
IsPassThrough(RegDef, Reg) == RegDef.opc = "COPY" /\ RegDef.r = Reg

\* The size check left out.
AlwaysFits(OutInfo, MF) == TRUE

\* Make sure that they can fit on the caller's stack.
FitsCallerStack(OutInfo, MF) == ~(OutInfo.NextStackOffset > MF.FuncInfo.ArgFrameSize)

\* The check the loop of areCalleeOutgoingArgsTailCallable makes of the
\* outgoing argument i: TRUE when the loop goes on to the next argument.
OutgoingArgTailCallable(Info, MF, OutArgs, OutLocs, i) ==
  LET ArgLoc == OutLocs[i]
      Reg == ArgLoc.reg
      CallerPreservedMask == getCallPreservedMask(MF.F.CallingConv)
      RegDef == getDefIgnoringCopies(OutArgs[i].Regs[1])
  IN IF ~ArgLoc.isReg THEN ~VariadicMemOperand(Info, ArgLoc)
     \* Only look at callee-saved registers.
     ELSE IF clobbersPhysReg(CallerPreservedMask, Reg) THEN TRUE
     ELSE IF Len(OutArgs[i].Regs) > 1 THEN FALSE
     ELSE IsPassThrough(RegDef, Reg)

areCalleeOutgoingArgsTailCallable(Info, MF, OutArgs) ==
  LET Checked(OutInfo) ==
        IF ~OutInfo.ok THEN FALSE
        ELSE IF ~FitsCallerStack(OutInfo, MF) THEN FALSE
        ELSE \A i \in 1..Len(OutInfo.Locs) :
               OutgoingArgTailCallable(Info, MF, OutArgs, OutInfo.Locs, i)
  IN IF OutArgs = <<>> THEN TRUE
     ELSE Checked(determineAssignments("CC_Z80", Info.CallConv, FALSE, OutArgs))

\* A parameter of the caller that rules tail calls out.
hasByValAttr(A) == A.Attr = "byval"
hasInRegAttr(A) == A.Attr = "inreg"
hasSwiftErrorAttr(A) == A.Attr = "swifterror"
hasSwiftSelfAttr(A) == A.Attr = "swiftself"
hasNestAttr(A) == A.Attr = "nest"
hasStructRetAttr(A) == A.Attr = "sret"

\* The checks of isEligibleForTailCallOptimization that do not depend on
\* -tailcallopt: TRUE when none of them rejects the call.
PassesTargetIndependentChecks(Info, MF) ==
  /\ Info.IsTailCall
  /\ ~Info.SwiftErrorVReg
  /\ mayTailCallThisCC(Info.CallConv)
  /\ ~\E i \in 1..Len(MF.F.Args) :
        hasByValAttr(MF.F.Args[i]) \/ hasInRegAttr(MF.F.Args[i])
          \/ hasSwiftErrorAttr(MF.F.Args[i])

\* The assertion of the sibling-call path: a variadic callee uses the C
\* convention.  TRUE when the analysis reaches it and it fails.
UnexpectedVariadicCC(Info, MF) ==
  /\ PassesTargetIndependentChecks(Info, MF)
  /\ ~MF.GuaranteedTailCallOpt
  /\ ~(~Info.IsVarArg \/ Info.CallConv = "C")

\* The -tailcallopt verdict without the comparison of the two conventions.
GuaranteedAnyCaller(Info, MF) == canGuaranteeTCO(Info.CallConv)

\* If we have -tailcallopt, then we're done.
GuaranteedVerdict(Info, MF) ==
  canGuaranteeTCO(Info.CallConv) /\ Info.CallConv = MF.F.CallingConv

isEligibleForTailCallOptimization(Info, MF, InArgs, OutArgs) ==
  IF ~PassesTargetIndependentChecks(Info, MF) THEN FALSE
  ELSE IF MF.GuaranteedTailCallOpt THEN GuaranteedVerdict(Info, MF)
  ELSE IF ~doCallerAndCalleePassArgsTheSameWay(Info, MF, InArgs) THEN FALSE
  ELSE areCalleeOutgoingArgsTailCallable(Info, MF, OutArgs)

(***************************************************************************)
(* MachineIRBuilder and the basic block.  A lowering works on a context X: *)
(* the block mbb (each instruction with an id), the insertion point ip     *)
(* (the id of the instruction it stands before, End for the block's end),  *)
(* the floating call instruction mib, the frame's fixed objects, and the   *)
(* handler's own fields.                                                   *)
(***************************************************************************)
End == 0

\* The position in mbb of the instruction the iterator it points to.
Pos(mbb, it) ==
  IF it = End THEN Len(mbb) + 1
  ELSE CHOOSE i \in 1..Len(mbb) : mbb[i].id = it

\* std::prev and std::next of a block iterator.
PrevIt(mbb, it) == mbb[Pos(mbb, it) - 1].id
NextIt(mbb, it) == IF Pos(mbb, it) >= Len(mbb) THEN End ELSE mbb[Pos(mbb, it) + 1].id

InsertBefore(mbb, it, MI) ==
  LET p == Pos(mbb, it)
  IN SubSeq(mbb, 1, p - 1) \o <<MI>> \o SubSeq(mbb, p, Len(mbb))

eraseFromParent(mbb, id) == SelectSeq(mbb, LAMBDA MI : MI.id # id)

\* MIRBuilder.buildInstr: a new instruction before the insertion point.
buildInstr(X, opc, ops) ==
  [X EXCEPT !.mbb = InsertBefore(X.mbb, X.ip, [id |-> X.nid, opc |-> opc, ops |-> ops]),
            !.nid = X.nid + 1]

\* MIRBuilder.insertInstr(MIB): the floating instruction goes before the
\* insertion point.
insertInstr(X) ==
  [X EXCEPT !.mbb = InsertBefore(X.mbb, X.ip, [id |-> X.nid, opc |-> X.mib.opc, ops |-> X.mib.ops]),
            !.mibId = X.nid,
            !.nid = X.nid + 1]

\* The context a lowering starts with: an empty block, the insertion point
\* at its end, the function's fixed objects.
FirstNewVReg == 100
NewContext(fixed, FuncInfo0) ==
  [mbb |-> <<>>, ip |-> End, nid |-> 1, nv |-> FirstNewVReg,
   mib |-> Instr("", <<>>), mibId |-> End, fixed |-> fixed,
   SPRegCopy |-> 0, SPRegCopyId |-> End, spUses |-> 0,
   addrOff |-> 0, addrSP |-> FALSE, addr |-> 0,
   StackPushes |-> End, RegCopies |-> End,
   SetupFrameAdjustment |-> 0, FrameSize |-> 0, FPDiff |-> 0,
   liveIns |-> {}, FuncInfo |-> FuncInfo0, SplitArgs |-> <<>>]

\* MachineFrameInfo::CreateFixedObject(Size, SPOffset, IsImmutable): fixed
\* objects have the frame indices -1, -2, ...
CreateFixedObject(X, Size, SPOffset) ==
  [X EXCEPT !.fixed = Append(X.fixed, [size |-> Size, off |-> SPOffset])]
LastFixedObject(X) == 0 - Len(X.fixed)

(***************************************************************************)
(* Z80OutgoingValueHandler and its two variants.                           *)
(***************************************************************************)
\* The constructor: a copy of the stack pointer.
Z80OutgoingValueHandler(X) ==
  [buildInstr(X, "COPY", <<VReg(X.nv), PReg("SP")>>)
     EXCEPT !.SPRegCopy = X.nv, !.SPRegCopyId = X.nid, !.nv = X.nv + 1]

\* Z80OutgoingValueHandler::getStackAddress: SPRegCopy + Off.
Z80OutgoingValueHandler_getStackAddress(X, Size, Off) ==
  LET X1 == buildInstr(X, "G_CONSTANT", <<VReg(X.nv), Imm(Off)>>)
      X2 == buildInstr(X1, "G_PTR_ADD", <<VReg(X.nv + 1), VReg(X.SPRegCopy), VReg(X.nv)>>)
  IN [X2 EXCEPT !.nv = X.nv + 2, !.spUses = X.spUses + 1,
                !.addr = X.nv + 1, !.addrSP = TRUE, !.addrOff = Off]

Z80OutgoingValueHandler_assignValueToReg(X, ValVReg, PhysReg) ==
  buildInstr([X EXCEPT !.mib.ops = Append(X.mib.ops, ImplicitUse(PhysReg))],
             "COPY", <<PReg(PhysReg), VReg(ValVReg)>>)

Z80OutgoingValueHandler_assignValueToAddress(X, ValVReg, VA) ==
  buildInstr(X, "G_STORE", <<VReg(ValVReg), VReg(X.addr), Imm(VA.size)>>)

\* TailCallArgHandler::getStackAddress: a fixed object at FPDiff + Offset.
TailCallArgHandler_getStackAddress(X, Size, Offset) ==
  LET X1 == CreateFixedObject(X, Size, X.FPDiff + Offset)
      X2 == buildInstr(X1, "G_FRAME_INDEX", <<VReg(X.nv), FrameIndex(LastFixedObject(X1))>>)
  IN [X2 EXCEPT !.nv = X.nv + 1, !.addr = X.nv, !.addrSP = FALSE, !.addrOff = 0]

\* CallArgHandler's constructor: both cursors at the insertion point.
CallArgHandler(X) ==
  LET Cursors(X1) == [X1 EXCEPT !.StackPushes = X1.ip, !.RegCopies = X1.ip]
  IN Cursors(Z80OutgoingValueHandler(X))

\* The copy built where the builder stands, the cursors left alone.
CopyAtInsertPt(X, ValVReg, PhysReg) ==
  Z80OutgoingValueHandler_assignValueToReg(X, ValVReg, PhysReg)
CallArgHandler_assignValueToReg(X, ValVReg, PhysReg) ==
  LET SaveInsertPt == PrevIt(X.mbb, X.ip)
      Restore(X2) == [X2 EXCEPT !.StackPushes = NextIt(X2.mbb, X2.StackPushes),
                                !.ip = NextIt(X2.mbb, SaveInsertPt)]
  IN Restore(Z80OutgoingValueHandler_assignValueToReg(
               [X EXCEPT !.StackPushes = PrevIt(X.mbb, X.StackPushes),
                         !.ip = X.RegCopies],
               ValVReg, PhysReg))

\* The address taken without the bytes already pushed.
AddressIgnoringPushes(X, Size, Offset) ==
  Z80OutgoingValueHandler_getStackAddress(X, Size, Offset)

CallArgHandler_getStackAddress(X, Size, Offset) ==
  Z80OutgoingValueHandler_getStackAddress(X, Size, Offset - X.SetupFrameAdjustment)

\* The push built, the insertion point left at the pushes.
PushWithoutRestore(X, ValVReg, VA) ==
  LET Restore(X2) == [X2 EXCEPT !.StackPushes = NextIt(X2.mbb, X2.StackPushes),
                                !.SetupFrameAdjustment = X.SetupFrameAdjustment + SlotSize]
  IN IF VA.size # SlotSize \/ ~(X.addrSP /\ X.addrOff = 0)
     THEN Z80OutgoingValueHandler_assignValueToAddress(X, ValVReg, VA)
     ELSE Restore(buildInstr([X EXCEPT !.ip = X.StackPushes,
                                       !.StackPushes = PrevIt(X.mbb, X.StackPushes)],
                             IF Is24Bit THEN "PUSH24r" ELSE "PUSH16r",
                             <<VReg(ValVReg)>>))

CallArgHandler_assignValueToAddress(X, ValVReg, VA) ==
  LET SaveInsertPt == PrevIt(X.mbb, X.ip)
      Restore(X2) == [X2 EXCEPT !.StackPushes = NextIt(X2.mbb, X2.StackPushes),
                                !.ip = NextIt(X2.mbb, SaveInsertPt),
                                !.SetupFrameAdjustment = X.SetupFrameAdjustment + SlotSize]
  IN IF VA.size # SlotSize \/ ~(X.addrSP /\ X.addrOff = 0)
     THEN Z80OutgoingValueHandler_assignValueToAddress(X, ValVReg, VA)
     ELSE Restore(buildInstr([X EXCEPT !.ip = X.StackPushes,
                                       !.StackPushes = PrevIt(X.mbb, X.StackPushes)],
                             IF Is24Bit THEN "PUSH24r" ELSE "PUSH16r",
                             <<VReg(ValVReg)>>))

\* The handler's virtual functions, by variant: "call" (CallArgHandler),
\* "tail" (TailCallArgHandler) and "ret" (Z80OutgoingValueHandler itself).
assignValueToReg(H, X, ValVReg, PhysReg) ==
  IF H = "call" THEN CallArgHandler_assignValueToReg(X, ValVReg, PhysReg)
  ELSE Z80OutgoingValueHandler_assignValueToReg(X, ValVReg, PhysReg)

getStackAddress(H, X, Size, Offset) ==
  IF H = "call" THEN CallArgHandler_getStackAddress(X, Size, Offset)
  ELSE IF H = "tail" THEN TailCallArgHandler_getStackAddress(X, Size, Offset)
  ELSE Z80OutgoingValueHandler_getStackAddress(X, Size, Offset)

assignValueToAddress(H, X, ValVReg, VA) ==
  IF H = "call" THEN CallArgHandler_assignValueToAddress(X, ValVReg, VA)
  ELSE Z80OutgoingValueHandler_assignValueToAddress(X, ValVReg, VA)

\* Z80OutgoingValueHandler::finalize: the flags word of the TI convention,
\* and the stack pointer's copy erased when nothing uses it.
TIFlagsWord == 35312
Z80OutgoingValueHandler_finalize(H, X, CC) ==
  LET EraseUnused(X1) ==
        IF X1.spUses = 0
        THEN [X1 EXCEPT !.mbb = eraseFromParent(X1.mbb, X1.SPRegCopyId)]
        ELSE X1
  IN EraseUnused(IF CC = "Z80_TIFlags"
                 THEN assignValueToReg(H,
                        [buildInstr(X, "G_CONSTANT", <<VReg(X.nv), Imm(TIFlagsWord)>>)
                           EXCEPT !.nv = X.nv + 1],
                        X.nv, "IY")
                 ELSE X)

\* The frame size not taken from the classifier.
FinalizeWithoutFrameSize(X, CC, NextStackOffset) ==
  LET AtRegCopies(X1) == [X1 EXCEPT !.ip = X1.RegCopies]
  IN AtRegCopies(Z80OutgoingValueHandler_finalize("call", X, CC))

CallArgHandler_finalize(X, CC, NextStackOffset) ==
  LET AtRegCopies(X1) == [X1 EXCEPT !.ip = X1.RegCopies]
  IN AtRegCopies(Z80OutgoingValueHandler_finalize("call",
                   [X EXCEPT !.FrameSize = NextStackOffset], CC))

finalize(H, X, CC, NextStackOffset) ==
  IF H = "call" THEN CallArgHandler_finalize(X, CC, NextStackOffset)
  ELSE Z80OutgoingValueHandler_finalize(H, X, CC)

\* handleAssignments: each part is given to the handler with its slot, in
\* argument order, and the handler is finalized.
RECURSIVE handleFrom(_, _, _, _, _)
handleFrom(H, X, Args, Locs, i) ==
  IF i > Len(Args) THEN X
  ELSE handleFrom(H,
         IF Locs[i].isReg
         THEN assignValueToReg(H, X, Args[i].Regs[1], Locs[i].reg)
         ELSE assignValueToAddress(H,
                getStackAddress(H, X, Locs[i].size, Locs[i].off),
                Args[i].Regs[1], Locs[i]),
         Args, Locs, i + 1)

\* determineAndHandleAssignments(Handler, Assigner, Args, MIRBuilder, CC,
\* IsVarArg) for an outgoing handler: the context after it, and its result.
determineAndHandleAssignments(H, Table, X, Args, CC, IsVarArg) ==
  LET Handle(CCInfo) ==
        IF ~CCInfo.ok THEN [ok |-> FALSE, X |-> X]
        ELSE [ok |-> TRUE,
              X |-> finalize(H, handleFrom(H, X, Args, CCInfo.Locs, 1), CC,
                             CCInfo.NextStackOffset)]
  IN Handle(determineAssignments(Table, CC, IsVarArg, Args))

(***************************************************************************)
(* Z80IncomingValueHandler: FormalArgHandler ("formal") and                *)
(* CallReturnHandler ("callret").                                          *)
(***************************************************************************)
\* MIB.addDef / addImm on an instruction already in the block.
addOperands(mbb, id, ops) ==
  [i \in 1..Len(mbb) |->
     IF mbb[i].id = id THEN [mbb[i] EXCEPT !.ops = @ \o ops] ELSE mbb[i]]

\* markPhysRegUsed: a live-in of the block, or an implicit def of the call.
markPhysRegUsed(H, X, PhysReg) ==
  IF H = "formal"
  THEN [X EXCEPT !.liveIns = @ \cup {PhysReg}]
  ELSE [X EXCEPT !.mbb = addOperands(X.mbb, X.mibId, <<ImplicitDef(PhysReg)>>)]

Z80IncomingValueHandler_assignValueToReg(H, X, ValVReg, PhysReg) ==
  buildInstr(markPhysRegUsed(H, X, PhysReg), "COPY", <<VReg(ValVReg), PReg(PhysReg)>>)

Z80IncomingValueHandler_getStackAddress(X, Size, Offset) ==
  LET X1 == CreateFixedObject(X, Size, Offset)
      X2 == buildInstr(X1, "G_FRAME_INDEX", <<VReg(X.nv), FrameIndex(LastFixedObject(X1))>>)
  IN [X2 EXCEPT !.nv = X.nv + 1, !.addr = X.nv, !.addrSP = FALSE, !.addrOff = 0]

Z80IncomingValueHandler_assignValueToAddress(X, ValVReg, VA) ==
  buildInstr(X, "G_LOAD", <<VReg(ValVReg), VReg(X.addr), Imm(VA.size)>>)

RECURSIVE handleIncomingFrom(_, _, _, _, _)
handleIncomingFrom(H, X, Args, Locs, i) ==
  IF i > Len(Args) THEN X
  ELSE handleIncomingFrom(H,
         IF Locs[i].isReg
         THEN Z80IncomingValueHandler_assignValueToReg(H, X, Args[i].Regs[1], Locs[i].reg)
         ELSE Z80IncomingValueHandler_assignValueToAddress(
                Z80IncomingValueHandler_getStackAddress(X, Locs[i].size, Locs[i].off),
                Args[i].Regs[1], Locs[i]),
         Args, Locs, i + 1)

\* FormalArgHandler::finalize: the size of the incoming argument area, and
\* for a variadic function the frame index where its variadic arguments
\* begin.
\* The argument area's size not recorded.
FinalizeWithoutArgFrameSize(X, IsVarArg, NextStackOffset) ==
  LET X2 == CreateFixedObject(X, 1, NextStackOffset)
  IN IF IsVarArg
     THEN [X2 EXCEPT !.FuncInfo.VarArgsFrameIndex = LastFixedObject(X2)]
     ELSE X

FormalArgHandler_finalize(X, IsVarArg, NextStackOffset) ==
  LET X1 == [X EXCEPT !.FuncInfo.ArgFrameSize = NextStackOffset]
      X2 == CreateFixedObject(X1, 1, NextStackOffset)
  IN IF IsVarArg
     THEN [X2 EXCEPT !.FuncInfo.VarArgsFrameIndex = LastFixedObject(X2)]
     ELSE X1

determineAndHandleIncoming(H, Table, X, Args, CC, IsVarArg) ==
  LET Finalize(X1, NextStackOffset) ==
        IF H = "formal" THEN FormalArgHandler_finalize(X1, IsVarArg, NextStackOffset)
        ELSE X1
      Handle(CCInfo) ==
        IF ~CCInfo.ok THEN [ok |-> FALSE, X |-> X]
        ELSE [ok |-> TRUE,
              X |-> Finalize(handleIncomingFrom(H, X, Args, CCInfo.Locs, 1),
                             CCInfo.NextStackOffset)]
  IN Handle(determineAssignments(Table, CC, IsVarArg, Args))

(***************************************************************************)
(* The frame lowering's choice of a stack adjustment, by byte count.       *)
(***************************************************************************)
getFrameAdjustment(MI) == MI.ops[1].n

getOptimalStackAdjustmentMethod(Amount) ==
  IF Amount = 0 THEN "SAM_None"
  ELSE IF Amount <= SlotSize THEN "SAM_Tiny"
  ELSE IF Amount <= 2 * SlotSize THEN "SAM_Small"
  ELSE IF Amount <= 3 * SlotSize THEN "SAM_Medium"
  ELSE "SAM_Large"

\* What one round of the loop over the two markers adds to the marker id.
adjustCallSeq(X, id) ==
  LET CallSeq == X.mbb[Pos(X.mbb, id)]
      SAM == getOptimalStackAdjustmentMethod(getFrameAdjustment(CallSeq))
      flags == IF SAM = "SAM_Large" THEN <<Op("implicit-def-dead", "F", 0)>> ELSE <<>>
      scratch == IF SAM \in {"SAM_Small", "SAM_Medium", "SAM_Large"}
                 THEN <<Op("implicit-def-dead",
                           IF SAM = "SAM_Small"
                           THEN (IF Is24Bit THEN "R24" ELSE "R16")
                           ELSE (IF Is24Bit THEN "A24" ELSE "A16"),
                           X.nv)>>
                 ELSE <<>>
  IN [X EXCEPT !.mbb = addOperands(X.mbb, id, flags \o scratch),
               !.nv = X.nv + Len(scratch)]

(***************************************************************************)
(* lowerTailCall and lowerCall.  The result of a lowering is a record:     *)
(* ret is "true", "false", or "assert" when an assertion of the code       *)
(* failed and stopped it; X is the context it left.                        *)
(***************************************************************************)
\* MachineOperand::setImm(v) asserts that the operand is an immediate.  In
\* a build without assertions it overwrites whatever the operand holds.
setImm(MO, v) ==
  IF MO.k = "imm" THEN [MO EXCEPT !.n = v]
  ELSE [MO EXCEPT !.r = "<overwritten>", !.n = v]

\* What a lowering returns: analyzed and CanTailCallOpt are set by lowerCall
\* when it made the eligibility analysis.
Result(ret, path, X, setImmKind) ==
  [ret |-> ret, path |-> path, X |-> X, setImmKind |-> setImmKind,
   analyzed |-> FALSE, CanTailCallOpt |-> FALSE]

\* NDEBUG: the build has no assertions.
lowerTailCall(Info, MF, OutArgs, X, NDEBUG) ==
  LET \* True when we're tail calling, but without -tailcallopt.
      IsSibCall == ~MF.GuaranteedTailCallOpt
      CallSeqStart == X.nid
      TCRetOpc == IF isReg(Info.Callee)
                  THEN (IF Is24Bit THEN "TCRETURN24r" ELSE "TCRETURN16r")
                  ELSE (IF Is24Bit THEN "TCRETURN24" ELSE "TCRETURN16")
      MIB == Instr(TCRetOpc, <<Info.Callee, RegMask(Info.CallConv)>>)
      NumBytes == 0
      NumReusableBytes == MF.FuncInfo.ArgFrameSize
      FPDiff == IF ~IsSibCall THEN NumReusableBytes - NumBytes ELSE 0
      \* If we have -tailcallopt, we need to adjust the stack.
      Adjusted(X3) ==
        buildInstr([X3 EXCEPT !.mib.ops[2] = setImm(@, FPDiff),
                              !.mbb = addOperands(@, CallSeqStart,
                                                  <<Imm(NumBytes), Imm(0)>>)],
                   "ADJCALLSTACKUP", <<Imm(NumBytes), Imm(0)>>)
      Marshalled(M) ==
        IF ~M.ok THEN Result("false", "tail", M.X, "none")
        ELSE IF IsSibCall THEN Result("true", "tail", insertInstr(M.X), "none")
        ELSE IF M.X.mib.ops[2].k # "imm" /\ ~NDEBUG
             THEN Result("assert", "tail", M.X, M.X.mib.ops[2].k)
        ELSE Result("true", "tail", insertInstr(Adjusted(M.X)), M.X.mib.ops[2].k)
      \* Do the actual argument marshalling.
      Started(X2) ==
        IF ~IsSibCall
             /\ ~determineAssignments("CC_Z80", Info.CallConv, FALSE, OutArgs).ok
        THEN Result("false", "tail", X2, "none")
        ELSE Marshalled(determineAndHandleAssignments("tail", "CC_Z80",
                          Z80OutgoingValueHandler([X2 EXCEPT !.FPDiff = FPDiff]),
                          OutArgs, Info.CallConv, Info.IsVarArg))
  IN IF MF.F.BTE THEN Result("false", "tail", X, "none")
     ELSE Started([(IF ~IsSibCall THEN buildInstr(X, "ADJCALLSTACKDOWN", <<>>) ELSE X)
                     EXCEPT !.mib = MIB])

\* Look through bitcasts of the callee.
RECURSIVE lookThroughCallee(_)
lookThroughCallee(Callee) ==
  IF Callee.k = "vreg" /\ Callee.n \in DOMAIN MRI
       /\ MRI[Callee.n].opc \in {"COPY", "G_GLOBAL_VALUE", "G_INTTOPTR", "G_CONSTANT"}
  THEN lookThroughCallee(
         LET MI == MRI[Callee.n]
         IN IF MI.opc = "G_GLOBAL_VALUE" THEN Sym(MI.r)
            ELSE IF MI.opc = "G_CONSTANT" THEN Op("cimm", "", MI.n)
            ELSE IF MI.phys THEN PReg(MI.r)
            ELSE VReg(MI.n))
  ELSE Callee

\* The end of the ordinary call: the sequence-start marker CallSeqStart gets
\* its operands and the sequence-end marker is built.
closeCallSeq(X, CallSeqStart) ==
  LET \* The two markers get their scratch registers, the start marker first.
      Adjust(X6, CallSeqEnd) == adjustCallSeq(adjustCallSeq(X6, CallSeqStart), CallSeqEnd)
      \* getPreFrameAdjustment and getDestroyFrameAdjustment are 0.
      Close(X4) ==
        Adjust(buildInstr([X4 EXCEPT !.mbb = addOperands(@, CallSeqStart,
                                       <<Imm(X4.FrameSize), Imm(0),
                                         Imm(X4.SetupFrameAdjustment)>>)],
                          "ADJCALLSTACKUP", <<Imm(0 + X4.FrameSize), Imm(0)>>),
               X4.nid)
  IN Close(X)

\* The ordinary call: markers, marshalling, the call, the returned value.
lowerOrdinaryCall(Info, MF, InArgs, OutArgs, X) ==
  LET CallSeqStart == X.nid
      CallOpc == IF isReg(Info.Callee)
                 THEN (IF Is24Bit THEN "CALL24r" ELSE "CALL16r")
                 ELSE (IF Is24Bit THEN "CALL24" ELSE "CALL16")
      MIB == Instr(CallOpc, <<Info.Callee, RegMask(Info.CallConv)>>)
      Returned(R) ==
        IF ~R.ok THEN Result("false", "call", R.X, "none")
        ELSE Result("true", "call", closeCallSeq(R.X, CallSeqStart), "none")
      \* Now we can add the actual call instruction to the correct basic block.
      Called(X3) ==
        Returned(IF InArgs # <<>>
                 THEN determineAndHandleIncoming("callret", "RetCC_Z80", X3, InArgs,
                                                 Info.CallConv, Info.IsVarArg)
                 ELSE [ok |-> TRUE, X |-> X3])
      Marshalled(M) ==
        IF ~M.ok THEN Result("false", "call", M.X, "none")
        ELSE Called(insertInstr(M.X))
  IN \* Do the actual argument marshalling.
     Marshalled(determineAndHandleAssignments("call", "CC_Z80",
                  CallArgHandler([buildInstr(X, "ADJCALLSTACKDOWN", <<>>)
                                    EXCEPT !.mib = MIB]),
                  OutArgs, Info.CallConv, Info.IsVarArg))

\* The parts lowerCall splits the call's arguments and returned value into;
\* ok is FALSE when one of them has more than one register.
OutArgsOf(Info) == SplitAll(Info.OrigArgs, 1)
InArgsOf(Info) == IF Info.OrigRet.Ty = "void" THEN <<>> ELSE splitToValueTypes(Info.OrigRet)
SplitOk(Info) ==
  /\ \A i \in 1..Len(Info.OrigArgs) : Len(Info.OrigArgs[i].Regs) <= 1
  /\ Info.OrigRet.Ty # "void" => Len(Info.OrigRet.Regs) <= 1

\* The result of a lowerCall that made the eligibility analysis.
WithVerdict(R, CanTailCallOpt) ==
  [R EXCEPT !.analyzed = TRUE, !.CanTailCallOpt = CanTailCallOpt]

\* The musttail check left out.
MustTailIgnored(Info, CanTailCallOpt) == FALSE

\* We must emit a tail call if we have musttail.
MustTailFails(Info, CanTailCallOpt) == Info.IsMustTailCall /\ ~CanTailCallOpt

lowerCall(Info0, MF, X, NDEBUG) ==
  LET Lower(Info, OutArgs, InArgs, CanTailCallOpt) ==
        WithVerdict(
          IF MustTailFails(Info, CanTailCallOpt)
          THEN Result("false", "none", X, "none")
          ELSE IF CanTailCallOpt THEN lowerTailCall(Info, MF, OutArgs, X, NDEBUG)
          ELSE lowerOrdinaryCall(Info, MF, InArgs, OutArgs, X),
          CanTailCallOpt)
      Analyze(Info, OutArgs, InArgs) ==
        IF ~SplitOk(Info) THEN Result("false", "none", X, "none")
        ELSE IF UnexpectedVariadicCC(Info, MF) /\ ~NDEBUG
             THEN Result("assert", "none", X, "none")
        ELSE Lower(Info, OutArgs, InArgs,
                   isEligibleForTailCallOptimization(Info, MF, InArgs, OutArgs))
      Split(Info) == Analyze(Info, OutArgsOf(Info), InArgsOf(Info))
  IN Split([Info0 EXCEPT !.Callee = lookThroughCallee(@)])

(***************************************************************************)
(* lowerFormalArguments and lowerReturn.                                   *)
(***************************************************************************)
\* -z80-return-sret, on by default.
ReturnSRet == TRUE

\* The registers the translator made for the parameter with the index Idx
\* among the parameters that have storage.
FirstParamVReg == 10
VRegs(Idx) == <<FirstParamVReg + Idx>>

\* The flags setArgFlags reads from the attributes at index Idx.
ArgFlagsAt(F, Idx) == [ByVal |-> hasByValAttr(F.Args[Idx + 1])]

\* The loop over F.args() from the parameter i on, Idx parameters bound so
\* far: the parts, the struct-return register, and whether it went through.
RECURSIVE formalArgsFrom(_, _, _, _, _)
formalArgsFrom(F, i, Idx, SplitArgs, SRet) ==
  IF i > Len(F.Args) THEN [ok |-> TRUE, SplitArgs |-> SplitArgs, SRet |-> SRet]
  ELSE LET Arg == F.Args[i]
           OrigArg == [Regs |-> VRegs(Idx), Ty |-> Arg.Ty, Flags |-> ArgFlagsAt(F, Idx)]
       IN IF StoreSize(Arg.Ty) = 0
          THEN formalArgsFrom(F, i + 1, Idx, SplitArgs, SRet)
          ELSE IF hasInRegAttr(Arg) \/ hasSwiftSelfAttr(Arg) \/ hasSwiftErrorAttr(Arg)
                    \/ hasNestAttr(Arg) \/ Len(VRegs(Idx)) > 1
          THEN [ok |-> FALSE, SplitArgs |-> SplitArgs, SRet |-> SRet]
          ELSE formalArgsFrom(F, i + 1, Idx + 1,
                              SplitArgs \o splitToValueTypes(OrigArg),
                              IF hasStructRetAttr(Arg) /\ ReturnSRet
                              THEN VRegs(Idx)[1] ELSE SRet)

lowerFormalArguments(F, X) ==
  LET Handled(R) ==
        IF ~R.ok THEN Result("false", "formal", R.X, "none")
        \* Move back to the end of the basic block.
        ELSE Result("true", "formal", [R.X EXCEPT !.ip = End], "none")
      Split(A) ==
        IF ~A.ok
        THEN Result("false", "formal", [X EXCEPT !.FuncInfo.SRetReturnReg = A.SRet], "none")
        ELSE Handled(determineAndHandleIncoming("formal", "CC_Z80",
                       [X EXCEPT !.FuncInfo.SRetReturnReg = A.SRet,
                                 !.SplitArgs = A.SplitArgs],
                       A.SplitArgs, F.CallingConv, F.IsVarArg))
  IN Split(formalArgsFrom(F, 1, 0, <<>>, X.FuncInfo.SRetReturnReg))

lowerReturn(Val, MF, X) ==
  LET MIB == Instr(IF Is24Bit THEN "RET24" ELSE "RET16", <<>>)
      SRetReturnReg == MF.FuncInfo.SRetReturnReg
      RetVRegs == IF SRetReturnReg # 0 THEN <<SRetReturnReg>> ELSE Val.Regs
      RetTy == IF SRetReturnReg # 0 THEN "i16" ELSE Val.Ty
      SplitArgs == splitToValueTypes([Regs |-> RetVRegs, Ty |-> RetTy, Flags |-> NoFlags])
      Marshalled(M) ==
        IF ~M.ok THEN Result("false", "return", M.X, "none")
        ELSE Result("true", "return", insertInstr(M.X), "none")
  IN IF RetVRegs = <<>>
     THEN Result("true", "return", insertInstr([X EXCEPT !.mib = MIB]), "none")
     ELSE Marshalled(determineAndHandleAssignments("ret", "RetCC_Z80",
                       Z80OutgoingValueHandler([X EXCEPT !.mib = MIB]), SplitArgs,
                       MF.F.CallingConv, MF.F.IsVarArg))

(***************************************************************************)
(* The inputs of the model.                                                *)
(***************************************************************************)
SeqsUpTo(S, n) == UNION {[1..k -> S] : k \in 0..n}

\* The functions lowered: their convention, parameters and attributes.  A
\* variadic function has the C convention.
CallerConvs == {"C", "Fast", "Z80_LibCall_F"}
Param(Ty, Attr) == [Ty |-> Ty, Attr |-> Attr]
ParamLists ==
  {<<>>,
   <<Param("i16", "none")>>,
   <<Param("i16", "none"), Param("i16", "none")>>,
   <<Param("i16", "byval")>>,
   <<Param("empty", "none"), Param("i16", "byval")>>,
   <<Param("i16", "inreg")>>}
Functions ==
  {Fn \in [CallingConv : CallerConvs, Args : ParamLists,
           IsVarArg : BOOLEAN, BTE : BOOLEAN] :
     Fn.IsVarArg => Fn.CallingConv = "C"}

\* The calls lowered: their arguments are the virtual registers 2 (a copy of
\* an incoming register) and 4 (a loaded value).  A musttail call is a tail
\* call, and a swifterror value is of interest on a tail call only.
ArgVRegs == {2, 4}
OrigArgKinds == {[Regs |-> <<v>>, Ty |-> "i16", Flags |-> NoFlags] : v \in ArgVRegs}
OrigArgLists == SeqsUpTo(OrigArgKinds, MaxArgs)
VoidRet == [Regs |-> <<>>, Ty |-> "void", Flags |-> NoFlags]
OrigRets == {VoidRet, [Regs |-> <<8>>, Ty |-> "i16", Flags |-> NoFlags]}
Callees == {Sym("@f"), VReg(6), VReg(7)}
\* An argument and a returned value that take two registers each.
MultiRegArg == [Regs |-> <<2, 4>>, Ty |-> "i32", Flags |-> NoFlags]
MultiRegRet == [Regs |-> <<8, 9>>, Ty |-> "i32", Flags |-> NoFlags]
CallInfos ==
  {I \in [Callee : Callees, CallConv : CallConvs, OrigArgs : OrigArgLists,
          OrigRet : OrigRets, IsTailCall : BOOLEAN, IsMustTailCall : BOOLEAN,
          IsVarArg : BOOLEAN, SwiftErrorVReg : BOOLEAN] :
     /\ I.IsMustTailCall => I.IsTailCall
     /\ I.SwiftErrorVReg => I.IsTailCall}
  \cup
  [Callee : {Sym("@f")}, CallConv : {"C"}, OrigArgs : {<<>>, <<MultiRegArg>>},
   OrigRet : {VoidRet, MultiRegRet}, IsTailCall : BOOLEAN, IsMustTailCall : {FALSE},
   IsVarArg : {FALSE}, SwiftErrorVReg : {FALSE}]
ReturnVals == {VoidRet, [Regs |-> <<4>>, Ty |-> "i16", Flags |-> NoFlags]}

(***************************************************************************)
(* The state: the function being lowered and what the lowering has done.   *)
(***************************************************************************)
VARIABLES
  F,                     \* the function: convention, parameters, attributes
  GuaranteedTailCallOpt, \* TargetOptions::GuaranteedTailCallOpt
  FuncInfo,              \* Z80MachineFunctionInfo
  HasTailCall,           \* MachineFrameInfo::hasTailCall
  FixedObjects,          \* MachineFrameInfo's fixed objects
  MBB,                   \* the instructions of the latest lowering
  pc,                    \* where the translation of the function stands
  Info,                  \* the CallLoweringInfo of the latest lowerCall
  Last,                  \* what the latest lowering did
  Handler,               \* a CallArgHandler driven one assignment at a time
  hpc,                   \* where the driving of Handler stands
  Assigned               \* the assignments Handler was given, in order

fvars == <<F, GuaranteedTailCallOpt, FuncInfo, HasTailCall, FixedObjects, MBB, pc, Info, Last>>
hvars == <<Handler, hpc, Assigned>>
vars == <<fvars, hvars>>

MF == [F |-> F, GuaranteedTailCallOpt |-> GuaranteedTailCallOpt, FuncInfo |-> FuncInfo]

NoInfo ==
  [Callee |-> Sym(""), CallConv |-> "C", OrigArgs |-> <<>>, OrigRet |-> VoidRet,
   IsTailCall |-> FALSE, IsMustTailCall |-> FALSE, IsVarArg |-> FALSE,
   SwiftErrorVReg |-> FALSE]

\* What a lowering leaves in Last: the operation, its result, the path taken
\* ("tail", "call" or "none" for a lowerCall), the verdict of the analysis
\* when it was made, the frame delta, the kind of operand the frame delta
\* was written to, the floating instruction, the argument area's size at
\* the start, and the parts lowerFormalArguments gave to its handler.
Done(op, R) ==
  [op |-> op, ret |-> R.ret, path |-> R.path, analyzed |-> R.analyzed,
   CanTailCallOpt |-> R.CanTailCallOpt, FPDiff |-> R.X.FPDiff, setImmKind |-> R.setImmKind,
   mib |-> R.X.mib, liveIns |-> R.X.liveIns,
   FrameSize |-> R.X.FrameSize, SetupFrameAdjustment |-> R.X.SetupFrameAdjustment,
   ArgFrameSizeBefore |-> FuncInfo.ArgFrameSize, FixedBefore |-> Len(FixedObjects),
   SplitArgs |-> R.X.SplitArgs]

\* The mark set on every attempt, successful or not.
TailCallAttempted(R) == R.path = "tail"
\* lowerTailCall marks the function as containing a tail call right before
\* it returns true (on the result R of a lowerCall).
setHasTailCall(R) == R.path = "tail" /\ R.ret = "true"

Init ==
  /\ F \in Functions
  /\ GuaranteedTailCallOpt \in BOOLEAN
  /\ FuncInfo = [ArgFrameSize |-> 0, VarArgsFrameIndex |-> 0, SRetReturnReg |-> 0]
  /\ HasTailCall = FALSE
  /\ FixedObjects = <<>>
  /\ MBB = <<>>
  /\ pc = "entry"
  /\ Info = NoInfo
  /\ Last = Done("none", Result("true", "none", NewContext(<<>>, FuncInfo), "none"))
  /\ Handler = NewContext(<<>>, FuncInfo)
  /\ hpc = "off"
  /\ Assigned = <<>>

After(R) ==
  /\ FuncInfo' = R.X.FuncInfo
  /\ FixedObjects' = R.X.fixed
  /\ MBB' = R.X.mbb

LowerFormalArguments ==
  /\ pc = "entry"
  /\ \E R \in {lowerFormalArguments(F, NewContext(FixedObjects, FuncInfo))} :
        /\ After(R)
        /\ pc' = IF R.ret = "true" THEN "body" ELSE "fallback"
        /\ Last' = Done("formal", R)
  /\ UNCHANGED <<F, GuaranteedTailCallOpt, HasTailCall, Info, hvars>>

LowerCall ==
  /\ pc = "body"
  /\ \E I \in CallInfos, NDEBUG \in BOOLEAN :
       \E R \in {lowerCall(I, MF, NewContext(FixedObjects, FuncInfo), NDEBUG)} :
          /\ After(R)
          /\ Info' = I
          /\ HasTailCall' = (HasTailCall \/ setHasTailCall(R))
          /\ pc' = CASE R.ret = "false" -> "fallback"
                     [] R.ret = "assert" -> "abort"
                     [] R.ret = "true" /\ R.path = "tail" -> "done"
                     [] OTHER -> "called"
          /\ Last' = [Done("call", R) EXCEPT !.SplitArgs = Last.SplitArgs]
  /\ UNCHANGED <<F, GuaranteedTailCallOpt, hvars>>

LowerReturn ==
  /\ pc = "body"
  /\ \E Val \in ReturnVals :
       /\ FuncInfo.SRetReturnReg # 0 => Val = VoidRet
       /\ \E R \in {lowerReturn(Val, MF, NewContext(FixedObjects, FuncInfo))} :
             /\ After(R)
             /\ pc' = IF R.ret = "true" THEN "done" ELSE "fallback"
             /\ Last' = [Done("return", R) EXCEPT !.SplitArgs = Last.SplitArgs]
  /\ UNCHANGED <<F, GuaranteedTailCallOpt, HasTailCall, Info, hvars>>

Next == LowerFormalArguments \/ LowerCall \/ LowerReturn

Spec == Init /\ [][Next]_vars

(***************************************************************************)
(* The call-variant handler on its own.  lowerCall's ordinary path builds  *)
(* the sequence-start marker and the floating call, constructs a           *)
(* CallArgHandler, lets handleAssignments give it one slot after another,  *)
(* finalizes it and inserts the call.  Here the slots are any sequence of  *)
(* at most MaxAssignments register and stack slots rather than the ones a  *)
(* convention of this model produces.                                     *)
(***************************************************************************)
MaxAssignments == 3
HandlerRegs == <<"HL", "DE">>
StackOffsets == {0, 1, SlotSize, 2 * SlotSize}
SlotSizes == {1, SlotSize}
FinalConvs == {"C", "Z80_TIFlags"}

\* lowerCall up to the construction of the handler.
HandlerStart ==
  LET Floating(X) == [X EXCEPT !.mib = Instr("CALL16", <<Sym("@f"), RegMask("C")>>)]
  IN CallArgHandler(Floating(buildInstr(
       NewContext(<<>>, [ArgFrameSize |-> 0, VarArgsFrameIndex |-> 0, SRetReturnReg |-> 0]),
       "ADJCALLSTACKDOWN", <<>>)))

RegsAssigned == SelectSeq(Assigned, LAMBDA A : A.kind = "reg")
SlotsAssigned == SelectSeq(Assigned, LAMBDA A : A.kind # "reg")

\* The end of the argument area the classifier has reached
\* (CCState::getNextStackOffset).
RECURSIVE NextStackOffsetFrom(_, _)
NextStackOffsetFrom(Slots, i) ==
  IF i > Len(Slots) THEN 0
  ELSE LET Rest == NextStackOffsetFrom(Slots, i + 1)
           Here == Slots[i].off + StackAlloc(Slots[i].size)
       IN IF Here > Rest THEN Here ELSE Rest

HInit ==
  /\ F = [CallingConv |-> "C", IsVarArg |-> FALSE, Args |-> <<>>, BTE |-> FALSE]
  /\ GuaranteedTailCallOpt = FALSE
  /\ FuncInfo = [ArgFrameSize |-> 0, VarArgsFrameIndex |-> 0, SRetReturnReg |-> 0]
  /\ HasTailCall = FALSE
  /\ FixedObjects = <<>>
  /\ MBB = <<>>
  /\ pc = "handler"
  /\ Info = NoInfo
  /\ Last = Done("none", Result("true", "none", NewContext(<<>>, FuncInfo), "none"))
  /\ Handler = HandlerStart
  /\ hpc = "assign"
  /\ Assigned = <<>>

\* handleAssignments gives the handler a register slot: the next free
\* argument register.
AssignValueToReg ==
  /\ hpc = "assign"
  /\ Len(Assigned) < MaxAssignments
  /\ Len(RegsAssigned) < Len(HandlerRegs)
  /\ \E ValVReg \in ArgVRegs :
       /\ Handler' = CallArgHandler_assignValueToReg(Handler, ValVReg,
                        HandlerRegs[Len(RegsAssigned) + 1])
       /\ Assigned' = Append(Assigned,
            [kind |-> "reg", vreg |-> ValVReg, off |-> 0, size |-> 0, addrOff |-> 0,
             SaveInsertPt |-> PrevIt(Handler.mbb, Handler.ip)])
  /\ UNCHANGED <<fvars, hpc>>

\* handleAssignments asks for the address of a stack slot ...
GetStackAddress ==
  /\ hpc = "assign"
  /\ Len(Assigned) < MaxAssignments
  /\ \E Size \in SlotSizes, Offset \in StackOffsets :
       /\ Handler' = CallArgHandler_getStackAddress(Handler, Size, Offset)
       /\ Assigned' = Append(Assigned,
            [kind |-> "addr", vreg |-> 0, off |-> Offset, size |-> Size,
             addrOff |-> Handler'.addrOff, SaveInsertPt |-> End])
  /\ hpc' = "addr"
  /\ UNCHANGED fvars

\* ... and gives it the value for that address: pushed or stored.
AssignValueToAddress ==
  /\ hpc = "addr"
  /\ \E ValVReg \in ArgVRegs :
       /\ Handler' = CallArgHandler_assignValueToAddress(Handler, ValVReg,
                        [size |-> Assigned[Len(Assigned)].size])
       /\ Assigned' = [Assigned EXCEPT ![Len(Assigned)] =
            [@ EXCEPT !.kind = IF Handler'.SetupFrameAdjustment
                                    # Handler.SetupFrameAdjustment
                               THEN "push" ELSE "store",
                      !.vreg = ValVReg,
                      !.SaveInsertPt = PrevIt(Handler.mbb, Handler.ip)]]
  /\ hpc' = "assign"
  /\ UNCHANGED fvars

Finalize ==
  /\ hpc = "assign"
  /\ \E CC \in FinalConvs :
       Handler' = CallArgHandler_finalize(Handler, CC, NextStackOffsetFrom(SlotsAssigned, 1))
  /\ hpc' = "finalized"
  /\ UNCHANGED <<fvars, Assigned>>

InsertCall ==
  /\ hpc = "finalized"
  /\ Handler' = insertInstr(Handler)
  /\ hpc' = "called"
  /\ UNCHANGED <<fvars, Assigned>>

\* The markers of the call sequence get their operands.
CloseCallSeq ==
  /\ hpc = "called"
  /\ Handler' = closeCallSeq(Handler, HandlerStart.mbb[1].id)
  /\ hpc' = "closed"
  /\ UNCHANGED <<fvars, Assigned>>

HNext ==
  \/ AssignValueToReg
  \/ GetStackAddress
  \/ AssignValueToAddress
  \/ Finalize
  \/ InsertCall
  \/ CloseCallSeq

HandlerSpec == HInit /\ [][HNext]_vars

(***************************************************************************)
(* Properties of lowerCall.  They are stated on the state a lowerCall      *)
(* leaves: the call it was given (Info), the function (F), the verdict of  *)
(* the eligibility analysis and the instructions emitted (MBB).            *)
(***************************************************************************)
CallLowered == Last.op = "call"
Accepted == CallLowered /\ Last.analyzed /\ Last.CanTailCallOpt
Rejected == CallLowered /\ Last.analyzed /\ ~Last.CanTailCallOpt
SiblingAccepted == Accepted /\ ~GuaranteedTailCallOpt

Opcodes == {MBB[i].opc : i \in 1..Len(MBB)}
SeqStartOpcodes == {"ADJCALLSTACKDOWN"}
CallOpcodes == {"CALL16", "CALL16r", "CALL24", "CALL24r"}
TCReturnOpcodes == {"TCRETURN16", "TCRETURN16r", "TCRETURN24", "TCRETURN24r"}

\* The conventions that may be tail-called, and those of them for which a
\* tail call can be guaranteed.
TailCallAllowList ==
  {"C", "PreserveMost", "Z80_LibCall", "Z80_LibCall_AB", "Z80_LibCall_AC",
   "Z80_LibCall_BC", "Z80_LibCall_L", "Z80_LibCall_F", "Z80_LibCall_16",
   "Z80_TIFlags"}
GuaranteedSubset == {"Fast"}

\* The first four steps of the analysis, on the call and the caller.
BasicChecksPass ==
  /\ Info.IsTailCall
  /\ ~Info.SwiftErrorVReg
  /\ Info.CallConv \in TailCallAllowList \cup GuaranteedSubset
  /\ \A i \in 1..Len(F.Args) : F.Args[i].Attr \notin {"byval", "inreg", "swifterror"}

\* The slots of the call's returned value under the convention CC, and of
\* its outgoing arguments as the analysis classifies them and as they are
\* marshalled.
RetSlots(CC) == determineAssignments("RetCC_Z80", CC, FALSE, InArgsOf(Info)).Locs
AnalyzerOutInfo == determineAssignments("CC_Z80", Info.CallConv, FALSE, OutArgsOf(Info))
MarshalOutInfo ==
  determineAssignments("CC_Z80", Info.CallConv, Info.IsVarArg, OutArgsOf(Info))
StackSlots(Locs) == SelectSeq(Locs, LAMBDA L : ~L.isReg)

\* The caller's and the callee's conventions agree on the returned value and
\* the callee preserves what the caller preserves.
ConventionsAgree ==
  /\ RetSlots(Info.CallConv) = RetSlots(F.CallingConv)
  /\ getCallPreservedMask(F.CallingConv) \subseteq getCallPreservedMask(Info.CallConv)

\* The virtual register v is, through copies, a copy of the physical
\* register PhysReg.
RECURSIVE ComesFrom(_, _)
ComesFrom(v, PhysReg) ==
  /\ v \in DOMAIN MRI
  /\ MRI[v].opc = "COPY"
  /\ IF MRI[v].phys THEN MRI[v].r = PhysReg ELSE ComesFrom(MRI[v].n, PhysReg)

\* C1: when the call is marked musttail and the analysis rejects it,
\* lowerCall returns false and has emitted no sequence-start marker, no call
\* instruction and no tail-return instruction.
MustTailRejectedEmitsNothing ==
  (Rejected /\ Info.IsMustTailCall) =>
    /\ Last.ret = "false"
    /\ Opcodes \cap (SeqStartOpcodes \cup CallOpcodes \cup TCReturnOpcodes) = {}

MustTailRejected == Rejected /\ Info.IsMustTailCall /\ Last.ret = "false"

\* C2: a call is eligible only if a tail call was requested, it carries no
\* swifterror value, the callee's convention is on the allow-list or in the
\* guaranteed subset, and no parameter of the caller is byval, inreg or
\* swifterror; with or without -tailcallopt.
EligibleOnlyIfBasicChecksPass == Accepted => BasicChecksPass

EligibleUnderGuaranteedPolicy == Accepted /\ GuaranteedTailCallOpt /\ F.Args # <<>>

\* C3: under -tailcallopt, once the first four steps have passed, the call
\* is eligible exactly when the callee's convention is in the guaranteed
\* subset and equals the caller's; the sibling-call checks play no part.
GuaranteedVerdictIsConventionMatch ==
  (CallLowered /\ Last.analyzed /\ GuaranteedTailCallOpt /\ BasicChecksPass) =>
    (Last.CanTailCallOpt <=>
       (Info.CallConv \in GuaranteedSubset /\ Info.CallConv = F.CallingConv))

\* A call -tailcallopt accepts although its arguments do not fit the
\* caller's incoming argument area.
GuaranteedAcceptsWhatSiblingRejects ==
  /\ Accepted
  /\ GuaranteedTailCallOpt
  /\ AnalyzerOutInfo.NextStackOffset > Last.ArgFrameSizeBefore

\* C4: an accepted tail call whose convention differs from the caller's has
\* the same slots for its returned value under both conventions, and its
\* callee preserves every register the caller preserves.
DifferingConventionsAgree ==
  (Accepted /\ Info.CallConv # F.CallingConv) => ConventionsAgree

AcceptedAcrossConventions ==
  Accepted /\ Info.CallConv # F.CallingConv /\ InArgsOf(Info) # <<>>

\* C5: a call accepted as a sibling call takes no more bytes of stack for
\* its outgoing arguments than the caller's incoming argument area has, and
\* a call with no outgoing arguments always passes this step.
SiblingArgumentsFit ==
  /\ SiblingAccepted => AnalyzerOutInfo.NextStackOffset <= Last.ArgFrameSizeBefore
  /\ (/\ CallLowered /\ Last.analyzed /\ ~GuaranteedTailCallOpt
      /\ BasicChecksPass
      /\ Info.CallConv = F.CallingConv \/ ConventionsAgree
      /\ Info.OrigArgs = <<>>)
     => Last.CanTailCallOpt

SiblingFillsArgumentArea ==
  /\ SiblingAccepted
  /\ AnalyzerOutInfo.NextStackOffset > 0
  /\ AnalyzerOutInfo.NextStackOffset = Last.ArgFrameSizeBefore

\* C6, as stated: no variadic call accepted as a tail call, with or without
\* -tailcallopt, has an outgoing argument in a stack slot.
VariadicTailCallHasNoStackArgument ==
  (Accepted /\ Info.IsVarArg) => StackSlots(MarshalOutInfo.Locs) = <<>>

\* C6: no variadic call accepted as a sibling call (-tailcallopt off) has an
\* outgoing argument in a stack slot.
VariadicSiblingCallHasNoStackArgument ==
  (SiblingAccepted /\ Info.IsVarArg) => StackSlots(MarshalOutInfo.Locs) = <<>>

VariadicSiblingAccepted == SiblingAccepted /\ Info.IsVarArg /\ Last.ret = "true"

\* C7, as stated: an outgoing argument of an accepted sibling call that is
\* in a register the caller's convention does not preserve is a copy of that
\* register.
ClobberedRegisterArgumentsPassThrough ==
  SiblingAccepted =>
    \A i \in 1..Len(AnalyzerOutInfo.Locs) :
      (/\ AnalyzerOutInfo.Locs[i].isReg
       /\ AnalyzerOutInfo.Locs[i].reg \notin getCallPreservedMask(F.CallingConv))
      => ComesFrom(OutArgsOf(Info)[i].Regs[1], AnalyzerOutInfo.Locs[i].reg)

\* C7: an outgoing argument of an accepted sibling call that is in a
\* register the caller's convention preserves (a callee-saved register) is
\* one value that is, through copies, a copy of that register.
PreservedRegisterArgumentsPassThrough ==
  SiblingAccepted =>
    \A i \in 1..Len(AnalyzerOutInfo.Locs) :
      (/\ AnalyzerOutInfo.Locs[i].isReg
       /\ AnalyzerOutInfo.Locs[i].reg \in getCallPreservedMask(F.CallingConv))
      => /\ Len(OutArgsOf(Info)[i].Regs) = 1
         /\ ComesFrom(OutArgsOf(Info)[i].Regs[1], AnalyzerOutInfo.Locs[i].reg)

SiblingPassesPreservedRegister ==
  /\ SiblingAccepted
  /\ \E i \in 1..Len(AnalyzerOutInfo.Locs) :
       /\ AnalyzerOutInfo.Locs[i].isReg
       /\ AnalyzerOutInfo.Locs[i].reg \in getCallPreservedMask(F.CallingConv)

\* C8, as stated: the frame delta is 0 for a sibling call and otherwise the
\* incoming argument area's size minus the bytes of the outgoing stack
\* arguments, and each stack argument of a tail call is stored in a fixed
\* slot at its offset plus the delta.
ExpectedFPDiff ==
  IF ~GuaranteedTailCallOpt THEN 0
  ELSE Last.ArgFrameSizeBefore - MarshalOutInfo.NextStackOffset

FrameDeltaIsReusableMinusOutgoing ==
  (CallLowered /\ Last.path = "tail" /\ Last.ret \in {"true", "assert"}) =>
    /\ Last.FPDiff = ExpectedFPDiff
    /\ Len(FixedObjects) = Last.FixedBefore + Len(StackSlots(MarshalOutInfo.Locs))
    /\ \A j \in 1..Len(StackSlots(MarshalOutInfo.Locs)) :
         FixedObjects[Last.FixedBefore + j].off
           = StackSlots(MarshalOutInfo.Locs)[j].off + ExpectedFPDiff

\* C9, as stated: the tail-return instruction of a tail call under
\* -tailcallopt carries the callee, the register mask and the frame delta as
\* an immediate operand of its own, and the delta is never written to an
\* operand that is not an immediate.
TailReturnCarriesFrameDelta ==
  (CallLowered /\ Last.path = "tail" /\ GuaranteedTailCallOpt /\ Last.ret # "false") =>
    /\ Last.setImmKind = "imm"
    /\ Last.ret = "true"
    /\ \E i \in 1..Len(MBB) :
         /\ MBB[i].opc \in TCReturnOpcodes
         /\ MBB[i].ops[1] = lookThroughCallee(Info.Callee)
         /\ \E j \in 2..Len(MBB[i].ops) : MBB[i].ops[j] = RegMask(Info.CallConv)
         /\ \E j \in 2..Len(MBB[i].ops) : MBB[i].ops[j] = Imm(Last.FPDiff)

\* C10, as stated: lowerTailCall fails on account of branch-target
\* enforcement exactly when the function has it and the callee, after the
\* look-through, is a register.
BTERejectsOnlyIndirectTailCalls ==
  (CallLowered /\ Last.path = "tail") =>
    (Last.ret = "false" <=> (F.BTE /\ isReg(lookThroughCallee(Info.Callee))))

(***************************************************************************)
(* Properties of the call-variant handler, stated on the block it has      *)
(* built (Handler.mbb) and the assignments it was given (Assigned).        *)
(***************************************************************************)
HandlerCalled == hpc \in {"called", "closed"}
HandlerClosed == hpc = "closed"
IsPush(MI) == MI.opc \in {"PUSH16r", "PUSH24r"}
IsRegCopy(MI) == MI.opc = "COPY" /\ MI.ops[1].k = "preg"
PushAt == {i \in 1..Len(Handler.mbb) : IsPush(Handler.mbb[i])}
RegCopyAt == {i \in 1..Len(Handler.mbb) : IsRegCopy(Handler.mbb[i])}
CallAt == Pos(Handler.mbb, Handler.mibId)

Reverse(s) == [i \in 1..Len(s) |-> s[Len(s) + 1 - i]]
Pushed == SelectSeq(Assigned, LAMBDA A : A.kind = "push")
Stored == SelectSeq(Assigned, LAMBDA A : A.kind = "store")
\* The values pushed and the registers copied to, as assigned and as found
\* in the block.
PushedVRegs == [i \in 1..Len(Pushed) |-> Pushed[i].vreg]
CopiedVRegs == [i \in 1..Len(RegsAssigned) |-> RegsAssigned[i].vreg]
EmittedPushes == SelectSeq(Handler.mbb, IsPush)
EmittedRegCopies == SelectSeq(Handler.mbb, IsRegCopy)
EmittedPushVRegs == [i \in 1..Len(EmittedPushes) |-> EmittedPushes[i].ops[1].n]
EmittedCopyVRegs == [i \in 1..Len(EmittedRegCopies) |-> EmittedRegCopies[i].ops[2].n]

JustAssigned == hpc = "assign" /\ Assigned # <<>>
LastAssigned == Assigned[Len(Assigned)]
InsertPtBeforePushesAndCopies ==
  \A i \in PushAt \cup RegCopyAt : Pos(Handler.mbb, Handler.ip) <= i

\* C15 as stated: after every slot assignment (register, pushed or stored
\* directly) the instruction before the insertion point is the one that
\* was before it when the assignment began, and the insertion point is
\* before every push and register copy emitted so far.
InsertPtRestoredAfterAssignment ==
  JustAssigned =>
    /\ PrevIt(Handler.mbb, Handler.ip) = LastAssigned.SaveInsertPt
    /\ InsertPtBeforePushesAndCopies

\* C15: after a register or a pushed stack assignment the instruction
\* before the insertion point is the one that was before it when the
\* assignment began; after a direct-store assignment it is the store, which
\* stands directly after the one that was before the insertion point; in
\* every case the insertion point is before every push and register copy
\* emitted so far.
InsertPtRestoredUnlessStored ==
  JustAssigned =>
    /\ LastAssigned.kind \in {"reg", "push"} =>
         PrevIt(Handler.mbb, Handler.ip) = LastAssigned.SaveInsertPt
    /\ LastAssigned.kind = "store" =>
         /\ Handler.mbb[Pos(Handler.mbb, Handler.ip) - 1].opc = "G_STORE"
         /\ PrevIt(Handler.mbb, PrevIt(Handler.mbb, Handler.ip)) = LastAssigned.SaveInsertPt
    /\ InsertPtBeforePushesAndCopies

StoredAfterPushAndCopy ==
  /\ JustAssigned
  /\ LastAssigned.kind = "store"
  /\ Pushed # <<>>
  /\ RegsAssigned # <<>>

\* The handler has been finalized: its adjustment and frame size are final.
HandlerFinalized == hpc \in {"finalized", "called", "closed"}
\* The stack slots were assigned with strictly increasing offsets, each at
\* least the previous offset plus the previous size.
IncreasingOffsets ==
  \A i \in 1..(Len(SlotsAssigned) - 1) :
    SlotsAssigned[i + 1].off >= SlotsAssigned[i].off + SlotsAssigned[i].size
\* The instruction of Handler's block that defines the virtual register v.
DefOf(v) ==
  Handler.mbb[CHOOSE i \in 1..Len(Handler.mbb) :
                /\ Handler.mbb[i].opc \in {"COPY", "G_CONSTANT", "G_PTR_ADD"}
                /\ Handler.mbb[i].ops[1] = VReg(v)]
\* The offsets from the stack pointer's snapshot that the stores of the
\* block are addressed at, in the order of the block.
EmittedStores == SelectSeq(Handler.mbb, LAMBDA MI : MI.opc = "G_STORE")
EmittedStoreOffsets ==
  [i \in 1..Len(EmittedStores) |->
     LET Addr == DefOf(EmittedStores[i].ops[2].n)
     IN IF Addr.opc = "G_PTR_ADD" /\ Addr.ops[2] = VReg(Handler.SPRegCopy)
        THEN DefOf(Addr.ops[3].n).ops[2].n
        ELSE 0 - 1000]

\* C17: when the stack slots are assigned with strictly increasing offsets,
\* then once the handler is finalized no push was assigned after a direct
\* store, every direct store is addressed at the stack pointer's snapshot
\* plus its slot's offset minus the final setup adjustment, the pushes cover
\* exactly the slots at the offsets 0, u, 2u, ... (u the slot size) and the
\* final setup adjustment is at most the final frame size.
PushesCoverLowestSlots ==
  (HandlerFinalized /\ IncreasingOffsets) =>
    /\ \A i, j \in 1..Len(SlotsAssigned) :
         (i < j /\ SlotsAssigned[i].kind = "store") => SlotsAssigned[j].kind = "store"
    /\ EmittedStoreOffsets =
         [i \in 1..Len(Stored) |-> Stored[i].off - Handler.SetupFrameAdjustment]
    /\ \A i \in 1..Len(Pushed) : Pushed[i].off = (i - 1) * SlotSize
    /\ Handler.SetupFrameAdjustment = SlotSize * Len(Pushed)
    /\ Len(EmittedPushes) = Len(Pushed)
    /\ Handler.SetupFrameAdjustment <= Handler.FrameSize

PushedThenStored ==
  /\ HandlerFinalized
  /\ IncreasingOffsets
  /\ Len(Pushed) >= 1
  /\ Len(Stored) >= 1
  /\ Len(SlotsAssigned) = MaxAssignments

\* The marker of Handler's block with one of the opcodes Opcs, and the
\* immediates an instruction carries, in order.
SeqEndOpcodes == {"ADJCALLSTACKUP"}
Marker(Opcs) ==
  Handler.mbb[CHOOSE i \in 1..Len(Handler.mbb) : Handler.mbb[i].opc \in Opcs]
ImmsOf(MI) ==
  LET Imms == SelectSeq(MI.ops, LAMBDA MO : MO.k = "imm")
  IN [i \in 1..Len(Imms) |-> Imms[i].n]
\* The bytes the pushes contribute, and the size of the argument area the
\* classifier committed.
PushedBytes == SlotSize * Len(Pushed)
CommittedFrameSize == NextStackOffsetFrom(SlotsAssigned, 1)
AllArgsInRegisters == SlotsAssigned = <<>>

\* C12 as stated: after a successful ordinary call the sequence-end marker
\* carries the frame size, the setup adjustment and a destroy adjustment
\* of zero, in this order.
SeqEndCarriesSetupAdjustment ==
  HandlerClosed =>
    ImmsOf(Marker(SeqEndOpcodes)) = <<CommittedFrameSize, PushedBytes, 0>>

\* C12: after a successful ordinary call the sequence-start marker carries
\* the committed frame size, a pre-adjustment of zero and the setup
\* adjustment (the bytes of the pushes), the sequence-end marker carries
\* the committed frame size and a destroy adjustment of zero, and when all
\* arguments are in registers every one of these byte counts is 0.
MarkersCarryFrameSizes ==
  HandlerClosed =>
    /\ ImmsOf(Marker(SeqStartOpcodes)) = <<CommittedFrameSize, 0, PushedBytes>>
    /\ ImmsOf(Marker(SeqEndOpcodes)) = <<CommittedFrameSize, 0>>
    /\ Len(EmittedPushes) = Len(Pushed)
    /\ AllArgsInRegisters =>
         /\ ImmsOf(Marker(SeqStartOpcodes)) = <<0, 0, 0>>
         /\ ImmsOf(Marker(SeqEndOpcodes)) = <<0, 0>>

ClosedWithPushesAndStores ==
  /\ HandlerClosed
  /\ PushedBytes > 0
  /\ CommittedFrameSize > PushedBytes
  /\ Stored # <<>>
  /\ RegsAssigned # <<>>

ClosedWithRegistersOnly ==
  /\ HandlerClosed
  /\ AllArgsInRegisters
  /\ Len(RegsAssigned) = Len(HandlerRegs)

(***************************************************************************)
(* Properties of lowerCall's tail path and of the function's own state.    *)
(***************************************************************************)
TCReturnAt == {i \in 1..Len(MBB) : MBB[i].opc \in TCReturnOpcodes}
\* The instructions that define a register of the call's returned value.
ReturnCaptureAt ==
  {i \in 1..Len(MBB) :
     /\ MBB[i].ops # <<>>
     /\ MBB[i].ops[1].k = "vreg"
     /\ \E j \in 1..Len(Info.OrigRet.Regs) : MBB[i].ops[1].n = Info.OrigRet.Regs[j]}

\* C13: when the analysis accepts, lowerCall takes the tail path and emits
\* no call instruction and no capture of the returned value; if the tail
\* path succeeds there is exactly one tail-return instruction, it is the
\* last instruction emitted, and on the sibling path there is no
\* sequence-start and no sequence-end marker; the function is marked as
\* containing a tail call exactly when the tail path returned success.
TailPathEmitsOnlyTailReturn ==
  /\ Accepted =>
       /\ Last.path = "tail"
       /\ Opcodes \cap CallOpcodes = {}
       /\ ReturnCaptureAt = {}
       /\ Last.ret = "true" =>
            /\ TCReturnAt = {Len(MBB)}
            /\ SiblingAccepted => Opcodes \cap (SeqStartOpcodes \cup SeqEndOpcodes) = {}
       /\ Last.ret # "true" => TCReturnAt = {}
  /\ HasTailCall <=> (CallLowered /\ Last.path = "tail" /\ Last.ret = "true")

SiblingTailCallWithReturnValue ==
  /\ SiblingAccepted
  /\ Last.ret = "true"
  /\ HasTailCall
  /\ Info.OrigRet # VoidRet
  /\ Info.OrigArgs # <<>>
  /\ Len(MBB) > 1

\* lowerFormalArguments has run and returned true.
FormalsLowered == pc # "entry" /\ pc # "handler" /\ (Last.op = "formal" => Last.ret = "true")
\* The classifier's cumulative stack byte count for the parts of the
\* function's own parameters.
ParameterStackBytes ==
  determineAssignments("CC_Z80", F.CallingConv, F.IsVarArg, Last.SplitArgs).NextStackOffset

VariadicFormalsLowered ==
  /\ FormalsLowered
  /\ F.IsVarArg
  /\ FuncInfo.ArgFrameSize > 0
  /\ CallLowered /\ Last.path = "call" /\ Last.ret = "true"
\* The positions of the parameters that have storage, in order.
StorageParams == SelectSeq([k \in 1..Len(F.Args) |-> k],
                           LAMBDA k : StoreSize(F.Args[k].Ty) # 0)
\* The register list the translator supplies for the parameter at position
\* k: it makes one list per parameter that has storage.
VRegsFor(k) ==
  VRegs(Cardinality({j \in 1..(k - 1) : StoreSize(F.Args[j].Ty) # 0}))

\* C16 as stated: after a successful lowerFormalArguments every parameter
\* with storage, at position k of the parameter list, was lowered with the
\* register list supplied for position k and with the attributes of
\* parameter k, whatever zero-size parameters were dropped before it.
ParametersKeepTheirBinding ==
  (Last.op = "formal" /\ Last.ret = "true") =>
    /\ Len(Last.SplitArgs) = Len(StorageParams)
    /\ \A j \in 1..Len(Last.SplitArgs) :
         /\ Last.SplitArgs[j].Regs = VRegsFor(StorageParams[j])
         /\ Last.SplitArgs[j].Ty = F.Args[StorageParams[j]].Ty
         /\ Last.SplitArgs[j].Flags.ByVal = hasByValAttr(F.Args[StorageParams[j]])

=============================================================================
